---- MODULE Spec2Model ----
(***************************************************************************)
(* overcast_opml_parser/__main__.py: load_file as a state machine.         *)
(*                                                                         *)
(* An outline node is its attribute mapping, kept as the sequence of       *)
(* <<name, value>> pairs in document order (a Python dict iterates in      *)
(* insertion order).  Values that the code or the schema parses as         *)
(* integers are sequences of one-character strings, so that split(",")     *)
(* and int() are computed; the other values are opaque strings.            *)
(* A Feed lives in `heap` and is referred to by its index there, because   *)
(* the local name feed_object and the list retval.feeds hold references.   *)
(***************************************************************************)
EXTENDS Integers, Sequences, FiniteSets, TLC

VARIABLES
    file,                     \* the file at `filename` (never written)
    check_unhandled_attr,     \* load_file's second parameter
    pc,                       \* position in load_file
    outcome,                  \* "running", "returned", or the exception that left load_file
    retval,                   \* the OPMLFile being built / returned
    heap,                     \* the Feed objects constructed so far
    feed_object,              \* the local name feed_object: a heap index or Unbound
    pi, fi, ei,               \* loop positions: playlist, feed, episode
    unhandled_playlist_attr,
    unhandled_feed_attr,
    unhandled_episode_attr,
    log,                      \* loguru records emitted by the current call
    prior                     \* what the earlier calls on the same file gave

vars == <<file, check_unhandled_attr, pc, outcome, retval, heap, feed_object,
          pi, fi, ei, unhandled_playlist_attr, unhandled_feed_attr,
          unhandled_episode_attr, log, prior>>

(***************************************************************************)
(* Bounds of the model.                                                    *)
(***************************************************************************)
MaxFeeds == 3
MaxEpisodes == 2
MaxPlaylists == 2
MaxStrLen == 4
MaxRecalls == 2

(***************************************************************************)
(* Sequences and attribute mappings.                                       *)
(***************************************************************************)
SeqsUpTo(S, n) == UNION {[1..k -> S] : k \in 0..n}

Range(s) == {s[i] : i \in DOMAIN s}

NoDup(s) == \A i, j \in DOMAIN s : s[i] = s[j] => i = j

Keys(attrs) == [i \in DOMAIN attrs |-> attrs[i][1]]

Has(attrs, k) == \E i \in DOMAIN attrs : attrs[i][1] = k

Get(attrs, k) == attrs[CHOOSE i \in DOMAIN attrs : attrs[i][1] = k][2]

(***************************************************************************)
(* str.split(",") and int() on a string given as a sequence of characters. *)
(***************************************************************************)
Digits == {"0", "1", "2", "3", "4", "5", "6", "7", "8", "9"}

DigitVal(c) ==
    CASE c = "0" -> 0 [] c = "1" -> 1 [] c = "2" -> 2 [] c = "3" -> 3
      [] c = "4" -> 4 [] c = "5" -> 5 [] c = "6" -> 6 [] c = "7" -> 7
      [] c = "8" -> 8 [] c = "9" -> 9

\* S.split(","): one piece more than there are commas; "" gives [""].
RECURSIVE SplitComma(_)
SplitComma(s) ==
    IF s = <<>> THEN << <<>> >>
    ELSE LET rest == SplitComma(Tail(s)) IN
         IF Head(s) = "," THEN << <<>> >> \o rest
         ELSE << <<Head(s)>> \o Head(rest) >> \o Tail(rest)

\* int(piece) succeeds on a non-empty run of decimal digits; on the empty
\* string and on a string holding a letter it raises ValueError.
IsDecimal(piece) == piece # <<>> /\ \A i \in DOMAIN piece : piece[i] \in Digits

RECURSIVE ToInt(_)
ToInt(piece) ==
    IF piece = <<>> THEN 0
    ELSE 10 * ToInt(SubSeq(piece, 1, Len(piece) - 1)) + DigitVal(piece[Len(piece)])

\* The list with every repeated value dropped after its first occurrence.
IntListDedup(value) ==
    LET pieces == SplitComma(value)
        firsts == {i \in DOMAIN pieces :
                     \A j \in 1..(i - 1) : ToInt(pieces[j]) # ToInt(pieces[i])}
        F[k \in 0..Len(pieces)] ==
            IF k = 0 THEN <<>>
            ELSE IF k \in firsts THEN Append(F[k - 1], ToInt(pieces[k])) ELSE F[k - 1]
    IN F[Len(pieces)]

\* [int(el) for el in value.split(",")]
IntList(value) ==
    LET pieces == SplitComma(value) IN [i \in DOMAIN pieces |-> ToInt(pieces[i])]

IntListRaises(value) ==
    \E i \in DOMAIN SplitComma(value) : ~IsDecimal(SplitComma(value)[i])

(***************************************************************************)
(* The three pydantic models.                                              *)
(***************************************************************************)
IntListKeys == <<"includePodcastIds", "includeEpisodeIds", "sortedEpisodeIds">>

Declared(kind) ==
    CASE kind = "playlist" ->
            {"title", "smart", "sorting", "includePodcastIds",
             "includeEpisodeIds", "sortedEpisodeIds"}
      [] kind = "feed" ->
            {"overcastId", "title", "xmlUrl", "htmlUrl", "subscribed", "episodes"}
      [] kind = "episode" ->
            {"overcastId", "pubDate", "title", "url", "enclosureUrl", "overcastUrl",
             "progress", "userUpdatedDate", "userDeleted", "played",
             "userRecommendedDate"}

\* Fields without a default.
Required(kind) ==
    CASE kind = "playlist" -> {"title", "smart", "sorting"}
      [] kind = "feed" -> {"overcastId", "title"}
      [] kind = "episode" ->
            {"overcastId", "pubDate", "title", "url", "enclosureUrl", "overcastUrl",
             "userUpdatedDate"}

IntFields(kind) ==
    CASE kind = "playlist" -> {}
      [] kind = "feed" -> {"overcastId"}
      [] kind = "episode" -> {"overcastId", "progress"}

BoolFields(kind) ==
    CASE kind = "playlist" -> {"smart"}
      [] kind = "feed" -> {"subscribed"}
      [] kind = "episode" -> {"userDeleted", "played"}

DateFields(kind) ==
    CASE kind = "playlist" -> {}
      [] kind = "feed" -> {}
      [] kind = "episode" -> {"pubDate", "userUpdatedDate", "userRecommendedDate"}

\* Strings the validation layer takes for a bool, and for a datetime.
BoolLiterals == {"true", "false", "1", "0"}

DateLiterals == {"2021-01-01T00:00:00Z", "2021-01-02T00:00:00Z"}

\* Model(**attrs) raises ValidationError unless every required field is there
\* and every typed field converts; attributes that are no field are ignored.
Validates(kind, attrs) ==
    /\ \A k \in Required(kind) : Has(attrs, k)
    /\ \A i \in DOMAIN attrs :
          LET k == attrs[i][1]
              v == attrs[i][2]
          IN /\ k \in IntFields(kind) => IsDecimal(v)
             /\ k \in BoolFields(kind) => v \in BoolLiterals
             /\ k \in DateFields(kind) => v \in DateLiterals

\* Names every BaseModel instance answers to besides its declared fields.
ModelMembers == {"copy", "dict", "json"}

\* hasattr(record, attr)
HasAttr(kind, attr) == attr \in Declared(kind) \cup ModelMembers

ignore_playlist_attr == {"text", "type"}
ignore_feed_attr == {"type", "text"}
ignore_episode_attr == {"text", "type"}

\* for attr in node.attrs: if attr not in ignore and attr not in unhandled
\*                            and not hasattr(record, attr): unhandled.append(attr)
RECURSIVE Scan(_, _, _, _)
Scan(keys, ignore, kind, unhandled) ==
    IF keys = <<>> THEN unhandled
    ELSE LET attr == Head(keys)
             next == IF attr \notin ignore /\ attr \notin Range(unhandled)
                        /\ ~HasAttr(kind, attr)
                     THEN Append(unhandled, attr)
                     ELSE unhandled
         IN Scan(Tail(keys), ignore, kind, next)

\* An Optional field: Field(None) when the attribute is absent.
Unset == [present |-> FALSE, value |-> <<>>]

OptionalIntList(attrs, k) ==
    IF Has(attrs, k) THEN [present |-> TRUE, value |-> IntList(Get(attrs, k))]
    ELSE Unset

\* Playlist(**playlist.attrs), after the three keys were replaced by int lists.
\* `node` is the position of the outline node the record was built from.
Playlist(p, attrs) ==
    [node |-> p,
     title |-> Get(attrs, "title"),
     smart |-> Get(attrs, "smart") \in {"true", "1"},
     sorting |-> Get(attrs, "sorting"),
     includePodcastIds |-> OptionalIntList(attrs, "includePodcastIds"),
     includeEpisodeIds |-> OptionalIntList(attrs, "includeEpisodeIds"),
     sortedEpisodeIds |-> OptionalIntList(attrs, "sortedEpisodeIds")]

\* Feed(**feed.attrs): episodes starts as its own empty list.
Feed(f, attrs) ==
    [node |-> f,
     overcastId |-> ToInt(Get(attrs, "overcastId")),
     title |-> Get(attrs, "title"),
     episodes |-> <<>>]

\* Episode(**episode.attrs)
Episode(f, e, attrs) ==
    [node |-> <<f, e>>,
     overcastId |-> ToInt(Get(attrs, "overcastId")),
     title |-> Get(attrs, "title")]

\* OPMLFile(): both lists empty.
OPMLFile == [playlists |-> <<>>, feeds |-> <<>>]

(***************************************************************************)
(* The files load_file is run on.                                          *)
(***************************************************************************)
PlaylistBase ==
    << <<"type", "podcast-playlist">>, <<"title", "Favorites">>,
       <<"smart", "false">>, <<"sorting", "dateAddedDesc">> >>

P_ok == PlaylistBase \o << <<"sortedEpisodeIds", <<"1", "0", "1", ",", "1", "0", "2">> >> >>
P_all ==
    PlaylistBase \o << <<"includePodcastIds", <<"5", "5">> >>,
                       <<"includeEpisodeIds", <<"7", ",", "7">> >>,
                       <<"sortedEpisodeIds", <<"0", "7">> >> >>
P_x == PlaylistBase \o << <<"x", "1">> >>
P_yx == << <<"text", "Favorites">> >> \o PlaylistBase \o << <<"y", "1">>, <<"x", "1">> >>
P_copy == PlaylistBase \o << <<"copy", "1">>, <<"y", "1">> >>
P_noTitle ==
    << <<"type", "podcast-playlist">>, <<"smart", "false">>,
       <<"sorting", "dateAddedDesc">>, <<"x", "1">> >>

PlaylistSamples == {P_ok, P_all, P_x, P_yx, P_copy, P_noTitle}

FeedBase ==
    << <<"type", "rss">>, <<"text", "Test Feed">>, <<"overcastId", <<"5", "5">> >>,
       <<"title", "Test Feed">>, <<"subscribed", "true">> >>

F_ok == FeedBase
F_bad ==
    << <<"type", "rss">>, <<"text", "Test Feed">>, <<"overcastId", <<"x">> >>,
       <<"title", "Test Feed">> >>
F_x == FeedBase \o << <<"x", "1">> >>
F_yx == FeedBase \o << <<"y", "1">>, <<"x", "1">> >>
F_copy == FeedBase \o << <<"copy", "1">>, <<"y", "1">> >>
F_bad_y == F_bad \o << <<"y", "1">> >>

EpisodeBase ==
    << <<"type", "podcast-episode">>, <<"overcastId", <<"1", "0", "1">> >>,
       <<"title", "Ep 1">>, <<"url", "u1">>, <<"enclosureUrl", "e1">>,
       <<"overcastUrl", "o1">>, <<"pubDate", "2021-01-01T00:00:00Z">>,
       <<"userUpdatedDate", "2021-01-02T00:00:00Z">> >>

E_ok == EpisodeBase
E_bad ==
    << <<"type", "podcast-episode">>, <<"overcastId", <<"1", "0", "1">> >>,
       <<"title", "Ep 1">>, <<"url", "u1">>, <<"enclosureUrl", "e1">>,
       <<"overcastUrl", "o1">>, <<"pubDate", "yesterday">>,
       <<"userUpdatedDate", "2021-01-02T00:00:00Z">> >>
E_x == EpisodeBase \o << <<"x", "1">> >>
E_yx == EpisodeBase \o << <<"y", "1">>, <<"x", "1">> >>
E_copy == EpisodeBase \o << <<"copy", "1">>, <<"y", "1">> >>
E_bad_y == E_bad \o << <<"y", "1">> >>

FeedNode(attrs, episodes) == [attrs |-> attrs, episodes |-> episodes]

ScenarioFeeds == << FeedNode(F_ok, <<E_ok>>) >>

OpmlFile(playlists, feeds) ==
    [exists |-> TRUE, hasPlaylists |-> TRUE, hasFeeds |-> TRUE,
     playlists |-> playlists, feeds |-> feeds]

\* Feed nodes that validate or not, at every position, with or without an episode.
FilesFeedPositions ==
    {OpmlFile(<<>>, fs) :
        fs \in SeqsUpTo({FeedNode(a, es) : a \in {F_ok, F_bad}, es \in {<<>>, <<E_ok>>}},
                        MaxFeeds)}

\* One or two feed nodes, each with episodes that validate or not.
FilesEpisodes ==
    LET nodes == {FeedNode(a, es) : a \in {F_ok, F_bad},
                                    es \in SeqsUpTo({E_ok, E_bad}, MaxEpisodes)}
    IN {OpmlFile(<<P_ok>>, <<n>>) : n \in nodes}
       \cup {OpmlFile(<<>>, <<n, m>>) : n \in nodes, m \in nodes}

\* Attributes without a field, on feed nodes and on episode nodes.
FilesFeedAttrs ==
    {OpmlFile(<<>>, fs) :
        fs \in SeqsUpTo({FeedNode(a, <<>>) : a \in {F_x, F_yx, F_copy, F_bad_y}},
                        MaxFeeds)}

FilesEpisodeAttrs ==
    {OpmlFile(<<>>, << FeedNode(F_ok, es) >>) :
        es \in SeqsUpTo({E_x, E_yx, E_copy, E_bad_y}, MaxEpisodes)}

\* Playlist nodes that validate or not.
FilesPlaylists ==
    {OpmlFile(ps, ScenarioFeeds) : ps \in SeqsUpTo(PlaylistSamples, MaxPlaylists)}

\* One playlist node with one of the three list attributes set to any short
\* string over digits, the comma and a letter.
Alphabet == {"0", "1", ",", "x"}

FilesIntLists ==
    {OpmlFile(<< PlaylistBase \o << <<IntListKeys[k], s>> >> >>, <<>>) :
        k \in DOMAIN IntListKeys, s \in SeqsUpTo(Alphabet, MaxStrLen)}

\* No file at the path, or a file without one of the two sections.
FilesMissing ==
    {[exists |-> FALSE, hasPlaylists |-> FALSE, hasFeeds |-> FALSE,
      playlists |-> <<>>, feeds |-> <<>>]}
    \cup {[exists |-> TRUE, hasPlaylists |-> FALSE, hasFeeds |-> hf,
           playlists |-> <<>>, feeds |-> fs] :
             hf \in BOOLEAN, fs \in {<<>>, ScenarioFeeds}}
    \cup {[exists |-> TRUE, hasPlaylists |-> TRUE, hasFeeds |-> FALSE,
           playlists |-> ps, feeds |-> <<>>] :
             ps \in SeqsUpTo({P_ok, P_x}, 1)}

Files ==
    FilesFeedPositions \cup FilesEpisodes \cup FilesFeedAttrs \cup FilesEpisodeAttrs
    \cup FilesPlaylists \cup FilesIntLists \cup FilesMissing

(***************************************************************************)
(* load_file.                                                              *)
(***************************************************************************)
\* feed_object before the first successful Feed(**feed.attrs).
Unbound == 0

LogMissingSection(section) ==
    [level |-> "ERROR", what |-> "missing section", kind |-> section, names |-> <<>>]

\* logger.error(error_message); logger.error(json.dumps(node, default=str))
LogValidation(kind, attrs) ==
    << [level |-> "ERROR", what |-> "validation error", kind |-> kind, names |-> <<>>],
       [level |-> "ERROR", what |-> "dump", kind |-> kind, names |-> Keys(attrs)] >>

LogUnhandled(kind, names) ==
    [level |-> "WARNING", what |-> "unhandled attrs", kind |-> kind, names |-> names]

\* The object a caller holds once load_file has returned: retval with its
\* references followed.
Deref(rv, hp) ==
    [playlists |-> rv.playlists,
     feeds |-> [i \in DOMAIN rv.feeds |-> hp[rv.feeds[i]]]]

Init ==
    /\ file \in Files
    /\ check_unhandled_attr \in BOOLEAN
    /\ pc = "load_file"
    /\ outcome = "running"
    /\ retval = OPMLFile
    /\ heap = <<>>
    /\ feed_object = Unbound
    /\ pi = 1 /\ fi = 1 /\ ei = 1
    /\ unhandled_playlist_attr = <<>>
    /\ unhandled_feed_attr = <<>>
    /\ unhandled_episode_attr = <<>>
    /\ log = <<>>
    /\ prior = <<>>

\* The test of existence left out.
FileMissingNever(f) == FALSE

\* if not filename.exists(): return OPMLFile()
FileMissing(f) == ~f.exists

ReturnEmpty ==
    /\ pc = "load_file"
    /\ FileMissing(file)
    /\ retval' = OPMLFile
    /\ outcome' = "returned"
    /\ pc' = "done"
    /\ UNCHANGED <<file, check_unhandled_attr, heap, feed_object, pi, fi, ei,
                   unhandled_playlist_attr, unhandled_feed_attr,
                   unhandled_episode_attr, log, prior>>

\* Open, read, drop the first line, parse, and look the two sections up.
\* Only the playlists section is tested for None.  open() on a path that
\* does not exist raises FileNotFoundError.
LocateSections ==
    /\ pc = "load_file"
    /\ ~FileMissing(file)
    /\ IF ~file.exists
       THEN /\ outcome' = "FileNotFoundError"
            /\ pc' = "done"
            /\ log' = log
       ELSE IF ~file.hasPlaylists
       THEN /\ log' = Append(log, LogMissingSection("playlists"))
            /\ outcome' = "SystemExit"
            /\ pc' = "done"
       ELSE /\ pc' = "playlists"
            /\ outcome' = outcome
            /\ log' = log
    /\ retval' = OPMLFile
    /\ unhandled_playlist_attr' = <<>>
    /\ unhandled_feed_attr' = <<>>
    /\ unhandled_episode_attr' = <<>>
    /\ UNCHANGED <<file, check_unhandled_attr, heap, feed_object, pi, fi, ei, prior>>

\* Two variants: insertion at the front, and an append that is done only
\* under check_unhandled_attr.
AppendPlaylistFirst(playlists, playlist_object) == <<playlist_object>> \o playlists

AppendPlaylistWhenChecking(playlists, playlist_object) ==
    IF check_unhandled_attr THEN Append(playlists, playlist_object) ELSE playlists

\* retval.playlists.append(playlist_object)
AppendPlaylist(playlists, playlist_object) == Append(playlists, playlist_object)

\* One turn of the loop over the podcast-playlist nodes.  int() and
\* Playlist(**attrs) are outside any try: their exceptions leave load_file.
PlaylistStep ==
    /\ pc = "playlists"
    /\ pi <= Len(file.playlists)
    /\ LET attrs == file.playlists[pi]
           present == {k \in DOMAIN IntListKeys : Has(attrs, IntListKeys[k])}
       IN IF \E k \in present : IntListRaises(Get(attrs, IntListKeys[k]))
          THEN /\ outcome' = "ValueError"
               /\ pc' = "done"
               /\ UNCHANGED <<retval, pi, unhandled_playlist_attr>>
          ELSE IF ~Validates("playlist", attrs)
          THEN /\ outcome' = "ValidationError"
               /\ pc' = "done"
               /\ UNCHANGED <<retval, pi, unhandled_playlist_attr>>
          ELSE /\ retval' = [retval EXCEPT
                               !.playlists = AppendPlaylist(@, Playlist(pi, attrs))]
               /\ unhandled_playlist_attr' =
                     IF check_unhandled_attr
                     THEN Scan(Keys(attrs), ignore_playlist_attr, "playlist",
                               unhandled_playlist_attr)
                     ELSE unhandled_playlist_attr
               /\ pi' = pi + 1
               /\ UNCHANGED <<outcome, pc>>
    /\ UNCHANGED <<file, check_unhandled_attr, heap, feed_object, fi, ei,
                   unhandled_feed_attr, unhandled_episode_attr, log, prior>>

\* feeds.xpath(...): feeds is None when the section was not found.
SelectFeeds ==
    /\ pc = "playlists"
    /\ pi > Len(file.playlists)
    /\ IF ~file.hasFeeds
       THEN outcome' = "AttributeError" /\ pc' = "done"
       ELSE outcome' = outcome /\ pc' = "feed"
    /\ UNCHANGED <<file, check_unhandled_attr, retval, heap, feed_object, pi, fi, ei,
                   unhandled_playlist_attr, unhandled_feed_attr,
                   unhandled_episode_attr, log, prior>>

\* try: feed_object = Feed(**feed.attrs) ... except ValidationError: log.
\* On failure feed_object keeps what it was bound to before, if anything.
FeedStep ==
    /\ pc = "feed"
    /\ fi <= Len(file.feeds)
    /\ LET attrs == file.feeds[fi].attrs IN
       IF Validates("feed", attrs)
       THEN /\ heap' = Append(heap, Feed(fi, attrs))
            /\ feed_object' = Len(heap) + 1
            /\ unhandled_feed_attr' =
                  IF check_unhandled_attr
                  THEN Scan(Keys(attrs), ignore_feed_attr, "feed", unhandled_feed_attr)
                  ELSE unhandled_feed_attr
            /\ log' = log
       ELSE /\ log' = log \o LogValidation("feed", attrs)
            /\ UNCHANGED <<heap, feed_object, unhandled_feed_attr>>
    /\ ei' = 1
    /\ pc' = "episode"
    /\ UNCHANGED <<file, check_unhandled_attr, outcome, retval, pi, fi,
                   unhandled_playlist_attr, unhandled_episode_attr, prior>>

\* One turn of the loop over the feed node's podcast-episode nodes.  The
\* except clause catches ValidationError only.
EpisodeStep ==
    /\ pc = "episode"
    /\ ei <= Len(file.feeds[fi].episodes)
    /\ LET attrs == file.feeds[fi].episodes[ei] IN
       IF ~Validates("episode", attrs)
       THEN /\ log' = log \o LogValidation("episode", attrs)
            /\ ei' = ei + 1
            /\ UNCHANGED <<outcome, pc, heap, unhandled_episode_attr>>
       ELSE IF feed_object = Unbound
       THEN /\ outcome' = "UnboundLocalError"
            /\ pc' = "done"
            /\ UNCHANGED <<log, ei, heap, unhandled_episode_attr>>
       ELSE /\ heap' = [heap EXCEPT
                          ![feed_object].episodes = Append(@, Episode(fi, ei, attrs))]
            /\ unhandled_episode_attr' =
                  IF check_unhandled_attr
                  THEN Scan(Keys(attrs), ignore_episode_attr, "episode",
                            unhandled_episode_attr)
                  ELSE unhandled_episode_attr
            /\ ei' = ei + 1
            /\ UNCHANGED <<outcome, pc, log>>
    /\ UNCHANGED <<file, check_unhandled_attr, retval, feed_object, pi, fi,
                   unhandled_playlist_attr, unhandled_feed_attr, prior>>

\* retval.feeds.append(feed_object), whatever feed_object is bound to.
AppendFeed ==
    /\ pc = "episode"
    /\ ei > Len(file.feeds[fi].episodes)
    /\ IF feed_object = Unbound
       THEN /\ outcome' = "UnboundLocalError"
            /\ pc' = "done"
            /\ UNCHANGED <<retval, fi>>
       ELSE /\ retval' = [retval EXCEPT !.feeds = Append(@, feed_object)]
            /\ fi' = fi + 1
            /\ pc' = "feed"
            /\ outcome' = outcome
    /\ UNCHANGED <<file, check_unhandled_attr, heap, feed_object, pi, ei,
                   unhandled_playlist_attr, unhandled_feed_attr,
                   unhandled_episode_attr, log, prior>>

\* The warnings after the walk, then return retval.
Warnings ==
    (IF unhandled_playlist_attr # <<>>
     THEN <<LogUnhandled("playlist", unhandled_playlist_attr)>> ELSE <<>>)
    \o (IF unhandled_feed_attr # <<>>
        THEN <<LogUnhandled("feed", unhandled_feed_attr)>> ELSE <<>>)
    \o (IF unhandled_episode_attr # <<>>
        THEN <<LogUnhandled("episode", unhandled_episode_attr)>> ELSE <<>>)

ReportAndReturn ==
    /\ pc = "feed"
    /\ fi > Len(file.feeds)
    /\ log' = IF check_unhandled_attr THEN log \o Warnings ELSE log
    /\ outcome' = "returned"
    /\ pc' = "done"
    /\ UNCHANGED <<file, check_unhandled_attr, retval, heap, feed_object, pi, fi, ei,
                   unhandled_playlist_attr, unhandled_feed_attr,
                   unhandled_episode_attr, prior>>

\* What a call left behind, as its caller sees it.
Summary ==
    [flag |-> check_unhandled_attr,
     outcome |-> outcome,
     result |-> IF outcome = "returned" THEN Deref(retval, heap) ELSE OPMLFile,
     log |-> log]

\* load_file is called again on the same path with the other value of
\* check_unhandled_attr: every local starts afresh.
CallAgain ==
    /\ pc = "done"
    /\ Len(prior) < MaxRecalls
    /\ prior' = Append(prior, Summary)
    /\ check_unhandled_attr' = ~check_unhandled_attr
    /\ pc' = "load_file"
    /\ outcome' = "running"
    /\ retval' = OPMLFile
    /\ heap' = <<>>
    /\ feed_object' = Unbound
    /\ pi' = 1 /\ fi' = 1 /\ ei' = 1
    /\ unhandled_playlist_attr' = <<>>
    /\ unhandled_feed_attr' = <<>>
    /\ unhandled_episode_attr' = <<>>
    /\ log' = <<>>
    /\ UNCHANGED file

Next ==
    \/ ReturnEmpty
    \/ LocateSections
    \/ PlaylistStep
    \/ SelectFeeds
    \/ FeedStep
    \/ EpisodeStep
    \/ AppendFeed
    \/ ReportAndReturn
    \/ CallAgain

Spec == Init /\ [][Next]_vars

(***************************************************************************)
(* Vocabulary of the properties.                                           *)
(***************************************************************************)
Returned == pc = "done" /\ outcome = "returned"

Result == Deref(retval, heap)

InvalidFeeds == {i \in DOMAIN file.feeds : ~Validates("feed", file.feeds[i].attrs)}

\* A playlist node on which int() or Playlist(**attrs) raises.
PlaylistNodeFails(attrs) ==
    \/ \E k \in DOMAIN IntListKeys :
          Has(attrs, IntListKeys[k]) /\ IntListRaises(Get(attrs, IntListKeys[k]))
    \/ ~Validates("playlist", attrs)

FailingPlaylists == {p \in DOMAIN file.playlists : PlaylistNodeFails(file.playlists[p])}

\* The positions of retval.feeds through which the Feed object r is reached.
Positions(r) == {p \in DOMAIN retval.feeds : retval.feeds[p] = r}

\* The episode nodes beneath feed node i that validate, in document order.
ValidEpisodeNodes(i) ==
    LET es == file.feeds[i].episodes
        F[k \in 0..Len(es)] ==
            IF k = 0 THEN <<>>
            ELSE IF Validates("episode", es[k]) THEN Append(F[k - 1], <<i, k>>)
            ELSE F[k - 1]
    IN F[Len(es)]

WarningsOf(kind) ==
    SelectSeq(log, LAMBDA r : r.level = "WARNING" /\ r.kind = kind)

ErrorsOf(lg) == SelectSeq(lg, LAMBDA r : r.level = "ERROR")

(***************************************************************************)
(* C1  Partial-failure isolation: when exactly one rss node fails Feed     *)
(* validation, a run that returns has N-1 feeds, none built from the       *)
(* failing node, and no valid node contributes more than one entry.        *)
(***************************************************************************)
C1_PartialFailureIsolation ==
    (Returned /\ file.exists /\ Cardinality(InvalidFeeds) = 1) =>
        /\ Len(retval.feeds) = Len(file.feeds) - 1
        /\ \A p \in DOMAIN retval.feeds : Result.feeds[p].node \notin InvalidFeeds
        /\ \A i \in DOMAIN file.feeds :
              Cardinality({p \in DOMAIN retval.feeds : Result.feeds[p].node = i}) <= 1

(***************************************************************************)
(* C2  Episode ownership: in a returned result every Episode that was      *)
(* appended is reached through exactly one position of the feed sequence   *)
(* (an Episode is held by one Feed object, so it is reached through the    *)
(* positions that hold that object).                                       *)
(***************************************************************************)
C2_EpisodeOwnership ==
    Returned =>
        \A r \in DOMAIN heap :
            heap[r].episodes # <<>> => Cardinality(Positions(r)) = 1

(***************************************************************************)
(* C3  Output contract for feeds: every Feed of the result comes from a    *)
(* feed node that validated and carries exactly the validated episode      *)
(* nodes beneath that node, in document order; episodes beneath a feed     *)
(* node that failed validation are in no feed of the result.               *)
(***************************************************************************)
C3_FeedOutputContract ==
    (Returned /\ file.exists) =>
        /\ \A p \in DOMAIN retval.feeds :
              LET f == Result.feeds[p] IN
              /\ f.node \notin InvalidFeeds
              /\ [k \in DOMAIN f.episodes |-> f.episodes[k].node]
                    = ValidEpisodeNodes(f.node)
        /\ \A p \in DOMAIN retval.feeds :
              \A k \in DOMAIN Result.feeds[p].episodes :
                  Result.feeds[p].episodes[k].node[1] \notin InvalidFeeds

(***************************************************************************)
(* C4  Feed and episode validation failures are recoverable: on a file     *)
(* with both sections whose playlists all validate, load_file is never     *)
(* left by an exception.                                                   *)
(***************************************************************************)
C4_FeedEpisodeFailuresRecoverable ==
    (file.exists /\ file.hasPlaylists /\ file.hasFeeds /\ FailingPlaylists = {}) =>
        outcome \in {"running", "returned"}

(***************************************************************************)
(* C5  Missing section: when the file lacks the playlists outline or the   *)
(* feeds outline (its playlist nodes being valid), load_file ends by       *)
(* sys.exit after logging an error that names the missing section.         *)
(***************************************************************************)
C5_MissingSectionFatal ==
    (pc = "done" /\ file.exists /\ FailingPlaylists = {}
        /\ (~file.hasPlaylists \/ ~file.hasFeeds)) =>
        /\ outcome = "SystemExit"
        /\ \E i \in DOMAIN log :
              /\ log[i].level = "ERROR"
              /\ log[i].what = "missing section"
              /\ log[i].kind = IF ~file.hasPlaylists THEN "playlists" ELSE "feeds"

(***************************************************************************)
(* C6  Playlist policy: a returned result has one Playlist per             *)
(* podcast-playlist node, in document order; when a playlist node fails,   *)
(* the exception is not caught, the run stops at the first such node,      *)
(* nothing is logged about it and nothing is returned.                     *)
(***************************************************************************)
C6_PlaylistPolicy ==
    /\ Returned =>
          /\ FailingPlaylists = {}
          /\ Len(retval.playlists) = Len(file.playlists)
          /\ \A p \in DOMAIN retval.playlists :
                /\ retval.playlists[p].node = p
                /\ retval.playlists[p].title = Get(file.playlists[p], "title")
    /\ (pc = "done" /\ file.exists /\ file.hasPlaylists /\ FailingPlaylists # {}) =>
          /\ outcome \in {"ValueError", "ValidationError"}
          /\ pi \in FailingPlaylists
          /\ \A p \in FailingPlaylists : pi <= p
          /\ log = <<>>

C6_Witness ==
    /\ pc = "done"
    /\ outcome = "ValidationError"
    /\ pi = 2
    /\ Len(retval.playlists) = 1

(***************************************************************************)
(* C7  Absent file: load_file returns an OPMLFile with no playlists and    *)
(* no feeds, logs nothing, for both values of check_unhandled_attr, and    *)
(* every repetition of the call gives the same.                            *)
(***************************************************************************)
C7_AbsentFile ==
    ~file.exists =>
        /\ pc \in {"load_file", "done"}
        /\ log = <<>>
        /\ pc = "done" => outcome = "returned" /\ Result = OPMLFile
        /\ \A i \in DOMAIN prior :
              /\ prior[i].outcome = "returned"
              /\ prior[i].result = OPMLFile
              /\ prior[i].log = <<>>

C7_Witness ==
    /\ ~file.exists
    /\ Returned
    /\ Len(prior) = 2
    /\ prior[1].flag # prior[2].flag

(***************************************************************************)
(* C8  check_unhandled_attr does not change the outcome: on the same file  *)
(* the calls with and without it end the same way, return the same         *)
(* playlists, feeds and episodes and log the same errors; warnings are in  *)
(* the log only once the walk is over and the flag is set, one per         *)
(* non-empty unknown-attribute list, carrying that list.                   *)
(***************************************************************************)
C8_FlagDoesNotChangeOutcome ==
    /\ pc = "done" =>
          \A i \in DOMAIN prior :
              /\ prior[i].outcome = outcome
              /\ prior[i].result = Summary.result
              /\ ErrorsOf(prior[i].log) = ErrorsOf(log)
    /\ (\E i \in DOMAIN log : log[i].level = "WARNING") =>
          Returned /\ check_unhandled_attr
    /\ (Returned /\ file.exists) =>
          /\ WarningsOf("playlist") =
                IF check_unhandled_attr /\ unhandled_playlist_attr # <<>>
                THEN <<LogUnhandled("playlist", unhandled_playlist_attr)>> ELSE <<>>
          /\ WarningsOf("feed") =
                IF check_unhandled_attr /\ unhandled_feed_attr # <<>>
                THEN <<LogUnhandled("feed", unhandled_feed_attr)>> ELSE <<>>
          /\ WarningsOf("episode") =
                IF check_unhandled_attr /\ unhandled_episode_attr # <<>>
                THEN <<LogUnhandled("episode", unhandled_episode_attr)>> ELSE <<>>

C8_Witness ==
    /\ Returned
    /\ check_unhandled_attr
    /\ Len(prior) >= 1
    /\ ~prior[1].flag
    /\ retval.playlists # <<>>
    /\ retval.feeds # <<>>
    /\ WarningsOf("playlist") # <<>>

(***************************************************************************)
(* C9  Unknown-attribute accumulation: with reporting on, each of the      *)
(* three lists is at every point duplicate-free and free of "text",        *)
(* "type" and the declared fields of its record kind, and after the walk   *)
(* it is the attribute names without a declared field that the nodes of    *)
(* that kind present, in order of first occurrence (feed nodes presenting  *)
(* x, y, x give [x, y]).                                                   *)
(***************************************************************************)
RECURSIVE Flatten(_)
Flatten(ss) == IF ss = <<>> THEN <<>> ELSE Head(ss) \o Flatten(Tail(ss))

\* The names of `names` that are neither ignored nor a declared field of
\* `kind`, each kept at its first occurrence.
FirstSeenUnknown(kind, names) ==
    LET unknown(n) == n \notin {"text", "type"} \cup Declared(kind)
        F[k \in 0..Len(names)] ==
            IF k = 0 THEN <<>>
            ELSE IF unknown(names[k]) /\ \A j \in 1..(k - 1) : names[j] # names[k]
                 THEN Append(F[k - 1], names[k])
                 ELSE F[k - 1]
    IN F[Len(names)]

PlaylistNames == Flatten([p \in DOMAIN file.playlists |-> Keys(file.playlists[p])])

FeedNames == Flatten([i \in DOMAIN file.feeds |-> Keys(file.feeds[i].attrs)])

EpisodeNames ==
    Flatten([i \in DOMAIN file.feeds |->
               Flatten([j \in DOMAIN file.feeds[i].episodes |->
                          Keys(file.feeds[i].episodes[j])])])

C9_UnknownAttrAccumulation ==
    check_unhandled_attr =>
        /\ NoDup(unhandled_playlist_attr)
        /\ NoDup(unhandled_feed_attr)
        /\ NoDup(unhandled_episode_attr)
        /\ Range(unhandled_playlist_attr) \cap ({"text", "type"} \cup Declared("playlist")) = {}
        /\ Range(unhandled_feed_attr) \cap ({"text", "type"} \cup Declared("feed")) = {}
        /\ Range(unhandled_episode_attr) \cap ({"text", "type"} \cup Declared("episode")) = {}
        /\ (Returned /\ file.exists) =>
              /\ unhandled_playlist_attr = FirstSeenUnknown("playlist", PlaylistNames)
              /\ unhandled_feed_attr = FirstSeenUnknown("feed", FeedNames)
              /\ unhandled_episode_attr = FirstSeenUnknown("episode", EpisodeNames)

(***************************************************************************)
(* C10  Integer-list coercion: in every Playlist built, each of the three  *)
(* list fields is unset when the node has no such attribute, and           *)
(* otherwise is a non-empty list with one integer per comma-separated      *)
(* piece of the attribute string S, in order and with repetitions kept:    *)
(* written back in decimal and joined with "," it is S with the leading    *)
(* zeros of each piece removed.                                            *)
(***************************************************************************)
DigitChar(d) ==
    CASE d = 0 -> "0" [] d = 1 -> "1" [] d = 2 -> "2" [] d = 3 -> "3"
      [] d = 4 -> "4" [] d = 5 -> "5" [] d = 6 -> "6" [] d = 7 -> "7"
      [] d = 8 -> "8" [] d = 9 -> "9"

\* str(n) for n >= 0
RECURSIVE Decimal(_)
Decimal(n) ==
    IF n < 10 THEN <<DigitChar(n)>> ELSE Decimal(n \div 10) \o <<DigitChar(n % 10)>>

\* ",".join(parts)
RECURSIVE JoinComma(_)
JoinComma(parts) ==
    IF parts = <<>> THEN <<>>
    ELSE IF Len(parts) = 1 THEN parts[1]
    ELSE parts[1] \o <<",">> \o JoinComma(Tail(parts))

Commas(s) == {i \in DOMAIN s : s[i] = ","}

\* s without the zeros that lead a piece and are followed by a digit.
CanonicalDecimal(s) ==
    LET leading(i) ==
            /\ s[i] = "0"
            /\ i < Len(s)
            /\ s[i + 1] # ","
            /\ \A j \in 1..i : (\A q \in j..i : s[q] # ",") => s[j] = "0"
    IN SelectSeq([i \in DOMAIN s |-> <<i, s[i]>>], LAMBDA c : ~leading(c[1]))

C10_IntListCoercion ==
    \A p \in DOMAIN retval.playlists :
        LET playlist == retval.playlists[p]
            attrs == file.playlists[playlist.node]
        IN \A k \in DOMAIN IntListKeys :
              LET key == IntListKeys[k]
                  field == playlist[key]
              IN IF ~Has(attrs, key)
                 THEN field = Unset
                 ELSE LET S == Get(attrs, key)
                          written == JoinComma([i \in DOMAIN field.value |->
                                                   Decimal(field.value[i])])
                          canon == CanonicalDecimal(S)
                      IN /\ field.present
                         /\ field.value # <<>>
                         /\ Len(field.value) = Cardinality(Commas(S)) + 1
                         /\ written = [i \in DOMAIN canon |-> canon[i][2]]

C10_Witness ==
    \E p \in DOMAIN retval.playlists :
        /\ Has(file.playlists[p], "sortedEpisodeIds")
        /\ Get(file.playlists[p], "sortedEpisodeIds") = <<"0", "1", ",", "1">>
        /\ retval.playlists[p].sortedEpisodeIds = [present |-> TRUE, value |-> <<1, 1>>]
        /\ retval.playlists[p].includePodcastIds = Unset

====
